---- MODULE Spec2Model ----
(***************************************************************************)
(* Validation-and-correction pipeline of NMAP-AI (agents/validator):       *)
(* syntax, conflict and safety checkers, CommandValidator.full_validation, *)
(* SelfCorrector.loop with its fix strategies, make_decision and           *)
(* ValidationPipeline.process; and the option store they consult,          *)
(* kg_utils.Neo4jClient with its embedded fallback data.                   *)
(*                                                                         *)
(* Representation.  A command string is the sequence of its whitespace-    *)
(* separated tokens (commands are taken with single separating blanks and  *)
(* no leading or trailing blank, so str.split and ' '.join are inverse on  *)
(* them and the empty sequence is the empty string).  What the code reads  *)
(* inside a token (prefixes, regular expressions, substrings) is given per *)
(* token of the vocabulary by the tables below.  Scores and confidences    *)
(* are in hundredths (0.8 is 80).  A Python dict is a record together with *)
(* the set of keys it holds, so that dict.get(key, default) is modelled.   *)
(***************************************************************************)
EXTENDS Integers, Sequences, FiniteSets, TLC

VARIABLES
    mode,          \* which validator_func the run uses: "any", "mock" or "full"
    max_retries,   \* SelfCorrector.max_retries
    complexity,    \* complexity hint handed to the generator and to make_decision
    kg_client,     \* CommandValidator.kg_client: "None", "fallback" or "raising"
    KG_AVAILABLE,  \* conflict_checker.KG_AVAILABLE (import of kg_utils succeeded)
    use_vm_sim,    \* CommandValidator.use_vm_sim
    pc,            \* position of the run
    attempt,       \* loop variable of SelfCorrector.loop
    command,       \* current command
    validation,    \* validation of the current command
    history,       \* attempt history
    best_result,   \* best attempt so far (None until a positive score is seen)
    best_score,    \* score of best_result
    result,        \* the dict returned by SelfCorrector.loop
    decision,      \* the dict returned by make_decision
    genCalls,      \* number of generator_func calls made by the run
    valCalls,      \* number of validator_func calls made by the run
    fixCalls,      \* number of apply_fixes calls made by the run
    vmRuns,        \* number of VM simulation runs (validate_with_vm calls)
    store,         \* a kg_utils.Neo4jClient and the last query made to it
    ret,           \* what the last direct call of a checker or helper returned
    runs           \* concurrent calls of SelfCorrector.loop on one instance

vars == <<mode, max_retries, complexity, kg_client, KG_AVAILABLE, use_vm_sim, pc,
          attempt, command, validation, history, best_result, best_score, result,
          decision, genCalls, valCalls, fixCalls, vmRuns, store, ret, runs>>

---------------------------------------------------------------------------
(* Bounds of the model *)

MaxRetriesBound == 3   \* max_retries ranges over 0..MaxRetriesBound
MaxCmdLen == 3         \* validated commands have at most MaxCmdLen tokens
MaxArgs == 2           \* commands of SpecCheckers carry at most MaxArgs argument tokens
MaxQueries == 2
ConcurrentRetries == 2 \* max_retries of the instance the concurrent runs share
MaxConflictFlags == 4  \* flags of the commands given to the conflict check
MaxAttemptsInput == 5  \* the attempt counts given to make_decision go up to this
MaxSafetyLen == 3      \* the commands given to the safety checker have at most this many tokens        \* queries made to one Neo4jClient in SpecStore

(* Program constants, in hundredths *)

SyntaxPenalty == 30
ConflictPenalty == 40
SafetyPenalty == 50
ValidThreshold == 50
VmWarnThreshold == 50
AcceptThreshold == 80
BaseConfidence == 70
ExcellentScore == 90
GoodScore == 70
ExcellentBonus == 20
GoodBonus == 10
MinimalBonus == 5
InvalidPenalty == 20
ErrorPenalty == 20
WarningPenalty == 5
RetryPenaltyStep == 5
RetryPenaltyCap == 15
EasyBonus == 10
HardPenalty == 10
LowBand == 50

---------------------------------------------------------------------------
(* Vocabulary and per-token tables *)

Tokens == {"nmap", "scan", "192.168.1.1", "out.txt", "80", ">",
           "-sS", "-sT", "-sV", "-p", "--bogus"}

\* the short flags the tables below cover
ShortFlagTokens ==
    {"-sS", "-sT", "-sA", "-sW", "-sM", "-sU", "-sN", "-sF", "-sX", "-sn", "-sV",
     "-p", "-p-", "-Pn", "-PS", "-PA", "-PU", "-PE", "-PP", "-PM", "-O", "-A",
     "-F", "-T4"}

\* the target tokens the commands under validation are built from: IPv4, CIDR,
\* domain, hostname
TargetTokens == {"192.168.1.1", "10.0.0.0/24", "example.com", "localhost"}

\* token.startswith('-')
StartsWithDash(t) == t \in ShortFlagTokens \cup {"--bogus"}

\* token.startswith('--')
StartsWithDoubleDash(t) == t \in {"--bogus"}

\* token.startswith('nmap'): the first token decides command.startswith('nmap')
StartsWithNmap(t) == t \in {"nmap"}

\* _is_valid_target: dotted quad, CIDR, domain name or single-word hostname
IsValidTarget(t) ==
    t \in TargetTokens \cup {"out.txt", "80", "nmap", "scan", "rm", "sudo", "127.0.0.1"}

\* _is_long_flag: exact or prefix match against known_long_flags
IsLongFlag(t) == t \in {}

\* len(flag) > 3, flag[1:] not digits, flag[:2] not in KNOWN_FLAGS
IsMalformedShortFlag(t) == t \in {}

\* re.findall(r'-[a-zA-Z0-9]+|--[\w-]+', token)
FlagsIn(t) ==
    IF t = "-p-" THEN <<"-p">>
    ELSE IF t \in ShortFlagTokens \cup {"--bogus"} THEN <<t>>
    ELSE <<>>

\* pattern in token, for the substrings the checkers search for (case-sensitive
\* and lower-cased searches agree on this vocabulary)
Occurs(pat, t) ==
    \/ pat = t /\ t \in {">", ">>", "-sS", "-sT", "-sV", "-sU", "-O", "-A", "-T4", "-p-",
                         "<", "|", ";", "&&"}
    \/ pat = ">" /\ t = ">>"
    \/ pat = "$(" /\ t = "$(id)"
    \/ pat = "backtick" /\ t = "backtick-id-backtick"

\* pattern in token + ' ', for the patterns that end with a space: the token
\* must be followed by another one
OccursBeforeSpace(pat, t) == pat = "rm " /\ t = "rm"

\* token is made of [>|<]+ only
IsRedirectToken(t) == t \in {">", ">>", "<", "|"}

\* token is made of [;&|]+ only
IsChainToken(t) == t \in {";", "&&"}

---------------------------------------------------------------------------
(* Sequence helpers *)

Contains(s, x) == \E i \in 1..Len(s) : s[i] = x

\* list.remove(x): drop the first occurrence
RemoveFirst(s, x) ==
    LET i == CHOOSE k \in 1..Len(s) : s[k] = x /\ \A j \in 1..(k - 1) : s[j] # x
    IN  SubSeq(s, 1, i - 1) \o SubSeq(s, i + 1, Len(s))

RECURSIVE SeqsUpTo(_, _)
SeqsUpTo(S, n) ==
    IF n = 0 THEN {<<>>}
    ELSE LET shorter == SeqsUpTo(S, n - 1)
         IN  shorter \cup {Append(s, x) : s \in shorter, x \in S}

Max(a, b) == IF a >= b THEN a ELSE b
Min(a, b) == IF a <= b THEN a ELSE b

\* substring search over the whole command string
InCommand(pat, cmd) ==
    \E i \in 1..Len(cmd) :
        Occurs(pat, cmd[i]) \/ (i < Len(cmd) /\ OccursBeforeSpace(pat, cmd[i]))

---------------------------------------------------------------------------
(* syntax_checker.validate_syntax *)

\* the tokens after the program token that are taken as targets: a token that
\* does not start with '-' and does not directly follow one that does
SyntaxTargets(parts) ==
    SelectSeq([i \in 1..Len(parts) |->
                  IF i > 1 /\ ~StartsWithDash(parts[i])
                     /\ ~(i > 2 /\ StartsWithDash(parts[i - 1]))
                  THEN parts[i] ELSE "-"],
              LAMBDA t : t # "-")

SyntaxFlags(parts) ==
    SelectSeq([i \in 1..Len(parts) |->
                  IF i > 1 /\ StartsWithDash(parts[i]) THEN parts[i] ELSE ""],
              LAMBDA t : t # "")

BadFlag(flag) ==
    \/ StartsWithDoubleDash(flag) /\ ~IsLongFlag(flag)
    \/ ~StartsWithDoubleDash(flag) /\ IsMalformedShortFlag(flag)

validate_syntax(cmd) ==
    LET targets == SyntaxTargets(cmd)
        flags == SyntaxFlags(cmd)
    IN  IF cmd = <<>> \/ ~StartsWithNmap(cmd[1])
        THEN [valid |-> FALSE, msg |-> "Command must start with 'nmap'"]
        ELSE IF Len(cmd) < 2
        THEN [valid |-> FALSE, msg |-> "Command too short - missing target"]
        ELSE IF targets = <<>>
        THEN [valid |-> FALSE, msg |-> "No target specified"]
        ELSE IF \E i \in 1..Len(targets) : ~IsValidTarget(targets[i])
        THEN [valid |-> FALSE, msg |-> "Invalid target format"]
        ELSE IF \E i \in 1..Len(flags) : BadFlag(flags[i])
        THEN [valid |-> FALSE, msg |-> "Invalid or malformed flag"]
        ELSE [valid |-> TRUE, msg |-> "Syntax valid"]

---------------------------------------------------------------------------
(* conflict_checker: fallback rules and flag extraction *)

ScanTypeFlags == <<"-sS", "-sT", "-sA", "-sW", "-sM", "-sU", "-sN", "-sF", "-sX">>

\* HARDCODED_CONFLICTS['scan_types']: every other scan type, in the order above
HardcodedScanTypes(flag) ==
    IF Contains(ScanTypeFlags, flag)
    THEN SelectSeq(ScanTypeFlags, LAMBDA f : f # flag)
    ELSE <<>>

\* HARDCODED_CONFLICTS['special']
HardcodedSpecial(flag) ==
    IF flag = "-sn" THEN <<"-p">>
    ELSE IF flag = "-Pn" THEN <<"-PS", "-PA", "-PU", "-PE", "-PP", "-PM">>
    ELSE <<>>

ROOT_REQUIRED_FLAGS ==
    {"-sS", "-sU", "-sN", "-sF", "-sX", "-sA", "-sW", "-sM", "-O", "--traceroute"}

RECURSIVE extract_flags(_)
extract_flags(cmd) ==
    IF cmd = <<>> THEN <<>> ELSE FlagsIn(Head(cmd)) \o extract_flags(Tail(cmd))

---------------------------------------------------------------------------
(* kg_utils.Neo4jClient in fallback mode *)

TimingFlags == <<"-T0", "-T1", "-T2", "-T3", "-T4", "-T5">>

\* fallback_options[flag].conflicts_with
FallbackConflicts(flag) ==
    IF flag = "-sS" THEN <<"-sT", "-sU", "-sn">>
    ELSE IF flag = "-sT" THEN <<"-sS", "-sU", "-sn">>
    ELSE IF flag = "-sU" THEN <<"-sS", "-sT", "-sn">>
    ELSE IF flag = "-sn" THEN <<"-sS", "-sT", "-sU", "-p">>
    ELSE IF flag = "-p" THEN <<"-F">>
    ELSE IF flag = "-p-" THEN <<"-F", "--top-ports">>
    ELSE IF flag = "-F" THEN <<"-p", "-p-">>
    ELSE IF flag = "--top-ports" THEN <<"-p-">>
    ELSE IF Contains(TimingFlags, flag) THEN SelectSeq(TimingFlags, LAMBDA f : f # flag)
    ELSE IF flag = "-Pn" THEN <<"-sn">>
    ELSE <<>>

\* names of the fallback options with requires_root = True
FallbackRootFlags == {"-sS", "-sU", "-O", "-A"}

\* Neo4jClient.get_conflicts
get_conflicts(option) == FallbackConflicts(option)

\* the (flag, conflict) pairs of Neo4jClient.validate_command_conflicts(flags), in
\* the order validate_conflicts lists them: dict keys in first-insertion order
RECURSIVE ConflictPairs(_, _)
ConflictPairs(flags, i) ==
    IF i > Len(flags) THEN <<>>
    ELSE LET flag == flags[i]
             found == SelectSeq(get_conflicts(flag), LAMBDA c : Contains(flags, c))
             pairs == IF \E j \in 1..(i - 1) : flags[j] = flag
                      THEN <<>>
                      ELSE [k \in 1..Len(found) |-> <<flag, found[k]>>]
         IN  pairs \o ConflictPairs(flags, i + 1)

validate_command_conflicts(flags) == ConflictPairs(flags, 1)

\* keys of fallback_options, in insertion order
FallbackOptionNames ==
    <<"-sS", "-sT", "-sU", "-sn", "-p", "-p-", "-F", "--top-ports", "-sV", "-O",
      "-T0", "-T1", "-T2", "-T3", "-T4", "-T5", "--script", "-oX", "-oN", "-oG",
      "--traceroute", "-6", "-A", "-v", "-Pn">>

\* fallback_options[flag].category
FallbackCategory(flag) ==
    IF flag \in {"-sS", "-sT", "-sU"} THEN "SCAN_TYPE"
    ELSE IF flag = "-sn" THEN "DISCOVERY"
    ELSE IF flag \in {"-p", "-p-", "-F", "--top-ports"} THEN "PORT_SPEC"
    ELSE IF flag = "-sV" THEN "SERVICE_DETECTION"
    ELSE IF flag = "-O" THEN "OS_DETECTION"
    ELSE IF Contains(TimingFlags, flag) THEN "TIMING"
    ELSE IF flag = "--script" THEN "SCRIPTING"
    ELSE IF flag \in {"-oX", "-oN", "-oG", "-v"} THEN "OUTPUT"
    ELSE IF flag \in {"--traceroute", "-6"} THEN "MISC"
    ELSE IF flag = "-A" THEN "AGGRESSIVE"
    ELSE "HOST_DISCOVERY"

\* Neo4jClient._get_options_fallback: the names of the options that pass the
\* filters; "None" is no filter, and so are an empty category and an empty list
get_options_fallback(requires_root, category, exclude_conflicts) ==
    SelectSeq(FallbackOptionNames,
              LAMBDA o :
                  /\ requires_root = "None"
                     \/ (requires_root = "True") = (o \in FallbackRootFlags)
                  /\ category = "None" \/ FallbackCategory(o) = category
                  /\ ~\E i \in 1..Len(FallbackConflicts(o)) :
                         Contains(exclude_conflicts, FallbackConflicts(o)[i]))

\* the store before its construction
NoStore ==
    [driver |-> "unset", fallback_options |-> FALSE, queries |-> 0, op |-> "none",
     option |-> "", requires_root |-> "None", category |-> "None",
     exclude_conflicts |-> <<>>, outcome |-> "none", source |-> "none",
     answer |-> <<>>]

\* no concurrent call of the loop is under way
NoRuns == <<>>

\* no checker or helper has been called directly
NoCall == [op |-> "none", value |-> <<>>]

---------------------------------------------------------------------------
(* conflict_checker.validate_conflicts and check_requires_root *)

\* the client the checkers end up querying: an explicit handle, else the one
\* get_kg_client() builds when the import succeeded (in fallback mode, the
\* backend being unreachable), else none
ClientUsed(client, available) ==
    IF client = "None" /\ available THEN "fallback" ELSE client

NoConflict == [valid |-> TRUE, f1 |-> "", f2 |-> "", more |-> 0]

\* first hit of a rule table, scanning flags in order and each flag's list in order
FirstHit(flags, Rule(_)) ==
    LET hits == {i \in 1..Len(flags) :
                    \E k \in 1..Len(Rule(flags[i])) : Contains(flags, Rule(flags[i])[k])}
    IN  IF hits = {} THEN NoConflict
        ELSE LET i == CHOOSE h \in hits : \A g \in hits : h <= g
                 lst == Rule(flags[i])
                 k == CHOOSE a \in 1..Len(lst) :
                         /\ Contains(flags, lst[a])
                         /\ \A b \in 1..(a - 1) : ~Contains(flags, lst[b])
             IN  [valid |-> FALSE, f1 |-> flags[i], f2 |-> lst[k], more |-> 0]

\* only the scan-type table scanned
HardcodedConflictsScanTypesOnly(flags) == FirstHit(flags, HardcodedScanTypes)

HardcodedConflicts(flags) ==
    LET scan == FirstHit(flags, HardcodedScanTypes)
    IN  IF ~scan.valid THEN scan ELSE FirstHit(flags, HardcodedSpecial)

KgConflicts(flags) ==
    LET pairs == validate_command_conflicts(flags)
    IN  IF pairs = <<>> THEN NoConflict
        ELSE [valid |-> FALSE, f1 |-> pairs[1][1], f2 |-> pairs[1][2],
              more |-> Len(pairs) - 1]

\* get_all_conflicts without a client: the hardcoded lists of a flag
get_all_conflicts(flag) == HardcodedScanTypes(flag) \o HardcodedSpecial(flag)

\* the exception of a failing handle leaving validate_conflicts
validate_conflicts_unguarded(cmd, client, available) ==
    IF client = "raising"
    THEN [valid |-> FALSE, f1 |-> "raised", f2 |-> "raised", more |-> 0]
    ELSE IF ClientUsed(client, available) = "fallback"
    THEN KgConflicts(extract_flags(cmd))
    ELSE HardcodedConflicts(extract_flags(cmd))

\* a handle whose query raises is caught (except Exception) and the hardcoded
\* rules decide, as they do without a handle
validate_conflicts(cmd, client, available) ==
    IF ClientUsed(client, available) = "fallback"
    THEN KgConflicts(extract_flags(cmd))
    ELSE HardcodedConflicts(extract_flags(cmd))

\* root flags found, in extraction order
check_requires_root(cmd, client, available) ==
    LET roots == IF ClientUsed(client, available) = "fallback"
                 THEN FallbackRootFlags ELSE ROOT_REQUIRED_FLAGS
    IN  SelectSeq(extract_flags(cmd), LAMBDA f : f \in roots)

---------------------------------------------------------------------------
(* safety_checker *)

\* the blacklist without the two command-substitution patterns
BlacklistWithoutSubstitution ==
    <<">", ">>", "<", "|", ";", "&&", "||",
      "rm ", "chmod ", "chown ", "dd ", "mkfs">>

\* "backtick" stands for the one-character pattern U+0060
BLACKLIST_PATTERNS ==
    <<">", ">>", "<", "|", ";", "&&", "||", "backtick", "$(",
      "rm ", "chmod ", "chown ", "dd ", "mkfs">>

WARNING_SCRIPTS == <<"exploit", "dos", "brute", "broadcast">>

FORBIDDEN_SCRIPTS == <<"malware">>

validate_safety(cmd) ==
    /\ \A i \in 1..Len(BLACKLIST_PATTERNS) : ~InCommand(BLACKLIST_PATTERNS[i], cmd)
    /\ ~(InCommand("--script", cmd)
         /\ \E i \in 1..Len(FORBIDDEN_SCRIPTS) : InCommand(FORBIDDEN_SCRIPTS[i], cmd))

get_safety_warnings(cmd) ==
    (IF InCommand("--script", cmd)
     THEN SelectSeq(WARNING_SCRIPTS, LAMBDA w : InCommand(w, cmd)) ELSE <<>>)
    \o (IF InCommand("-T4", cmd) \/ InCommand("-T5", cmd) THEN <<"timing">> ELSE <<>>)
    \o (IF InCommand("-A", cmd) THEN <<"aggressive">> ELSE <<>>)
    \o (IF InCommand("-p-", cmd) \/ InCommand("-p 1-65535", cmd)
        THEN <<"full port scan">> ELSE <<>>)
    \o (IF InCommand("-sU", cmd) THEN <<"udp">> ELSE <<>>)
    \o (IF InCommand("-sV", cmd) THEN <<"version detection">> ELSE <<>>)
    \o (IF InCommand("-O", cmd) THEN <<"os detection">> ELSE <<>>)
    \o (IF InCommand("--script", cmd) /\ InCommand("vuln", cmd)
        THEN <<"vuln scripts">> ELSE <<>>)

\* advisory findings reported as blocking ones
check_safe_execution_blocking(cmd) ==
    LET errors == SelectSeq(BLACKLIST_PATTERNS, LAMBDA pat : InCommand(pat, cmd))
                  \o get_safety_warnings(cmd)
    IN  [valid |-> errors = <<>>, errors |-> errors, warnings |-> <<>>]

\* (is_safe, errors, warnings)
check_safe_execution(cmd) ==
    LET errors ==
            IF validate_safety(cmd) THEN <<>>
            ELSE SelectSeq(BLACKLIST_PATTERNS, LAMBDA pat : InCommand(pat, cmd))
                 \o (IF InCommand("--script", cmd)
                     THEN SelectSeq(FORBIDDEN_SCRIPTS, LAMBDA f : InCommand(f, cmd))
                     ELSE <<>>)
    IN  [valid |-> errors = <<>>, errors |-> errors,
         warnings |-> get_safety_warnings(cmd)]

---------------------------------------------------------------------------
(* validation dicts *)

Error(kind, msg, f1, f2) == [kind |-> kind, msg |-> msg, f1 |-> f1, f2 |-> f2]

\* the dict {"valid": False, "score": 0.0} recorded when the generator raises
SyntheticFailure ==
    [keys |-> {"valid", "score"}, valid |-> FALSE, is_valid |-> FALSE, score |-> 0,
     errors |-> <<>>, warnings |-> <<>>, feedback |-> "", vm |-> "none"]

\* dict.get(key, default) for the keys the code reads
GetValid(v) == IF "valid" \in v.keys THEN v.valid ELSE FALSE
GetScore(v) == IF "score" \in v.keys THEN v.score ELSE 0
GetErrors(v) == IF "errors" \in v.keys THEN v.errors ELSE <<>>
GetWarnings(v) == IF "warnings" \in v.keys THEN v.warnings ELSE <<>>

---------------------------------------------------------------------------
(* validator.CommandValidator *)

\* outcomes of the VM simulation scorer validate_with_vm: a score or an exception
VmOutcomes ==
    {[raised |-> TRUE, score |-> 0]}
    \cup {[raised |-> FALSE, score |-> s] : s \in {0, 40, 100}}

\* score = max(0.0, min(1.0, score)) without the lower bound
ClampScoreNoFloor(s) == Min(100, s)

\* score = max(0.0, min(1.0, score))
ClampScore(s) == Max(0, Min(100, s))

\* the Error entries of one failed check
SyntaxErrors(syntax) ==
    IF syntax.valid THEN <<>> ELSE <<Error("Syntax", syntax.msg, "", "")>>

ConflictErrors(conflict) ==
    IF conflict.valid THEN <<>>
    ELSE <<Error("Conflict", "conflicts with", conflict.f1, conflict.f2)>>

SafetyErrors(safety) ==
    IF safety.valid THEN <<>>
    ELSE [i \in 1..Len(safety.errors) |-> Error("Safety", safety.errors[i], "", "")]

\* the error list if a failed check ended the validation
CollectErrorsShortCircuit(syntax, conflict, safety) ==
    IF ~syntax.valid THEN SyntaxErrors(syntax)
    ELSE IF ~conflict.valid THEN ConflictErrors(conflict)
    ELSE SafetyErrors(safety)

\* steps 1 to 3: every check appends to the same error list
CollectErrors(syntax, conflict, safety) ==
    SyntaxErrors(syntax) \o ConflictErrors(conflict) \o SafetyErrors(safety)

\* the VM simulation run whenever it is switched on
RunsVmAlways(vmOn, syntax, errors) == vmOn

\* step 5: if self.use_vm_sim and syntax_valid and len(errors) == 0
RunsVm(vmOn, syntax, errors) == vmOn /\ syntax.valid /\ Len(errors) = 0

full_validation(cmd, client, available, vmOn, vmOut) ==
    LET syntax == validate_syntax(cmd)
        conflict == validate_conflicts(cmd, client, available)
        safety == check_safe_execution(cmd)
        root_flags == check_requires_root(cmd, client, available)
        errors == CollectErrors(syntax, conflict, safety)
        score0 == 100 - (IF syntax.valid THEN 0 ELSE SyntaxPenalty)
                      - (IF conflict.valid THEN 0 ELSE ConflictPenalty)
                      - (IF safety.valid THEN 0 ELSE SafetyPenalty)
        warnings0 == safety.warnings
                     \o (IF root_flags # <<>> THEN <<"requires root">> ELSE <<>>)
        runVm == RunsVm(vmOn, syntax, errors)
        score1 == IF runVm /\ ~vmOut.raised THEN (score0 + vmOut.score) \div 2
                  ELSE score0
        warnings ==
            warnings0
            \o (IF runVm /\ vmOut.raised THEN <<"vm failed">>
                ELSE IF runVm /\ vmOut.score < VmWarnThreshold THEN <<"low vm score">>
                ELSE <<>>)
        score == ClampScore(score1)
        is_valid == Len(errors) = 0 /\ score >= ValidThreshold
    IN  [keys |-> {"is_valid", "score", "feedback", "errors", "warnings", "details"},
         valid |-> FALSE,
         is_valid |-> is_valid,
         score |-> score,
         errors |-> errors,
         warnings |-> warnings,
         feedback |-> IF is_valid
                      THEN (IF warnings # <<>> THEN "valid with warnings" ELSE "valid")
                      ELSE "has errors",
         vm |-> IF ~runVm THEN "none" ELSE IF vmOut.raised THEN "error" ELSE "ran"]

\* the quick check handing the command to the full validation with the store
quick_validation_with_store(cmd) ==
    full_validation(cmd, "fallback", TRUE, FALSE, [raised |-> TRUE, score |-> 0]).is_valid

\* syntax_valid and safety_valid
quick_validation(cmd) == validate_syntax(cmd).valid /\ validate_safety(cmd)

\* the VM simulation outcomes a call of full_validation can meet: one (unused) outcome
\* when it does not call validate_with_vm
VmOutcomesFor(cmd, client, available, vmOn) ==
    LET unused == [raised |-> TRUE, score |-> 0]
    IN  IF full_validation(cmd, client, available, vmOn, unused).vm = "none"
        THEN {unused} ELSE VmOutcomes

---------------------------------------------------------------------------
(* self_correct.SelfCorrector: fix strategies *)

\* str(e).lower() contains 'conflict' / 'syntax' / 'safety' or 'dangerous'
MentionsConflict(e) == e.kind = "Conflict"
MentionsSyntax(e) == e.kind = "Syntax"
MentionsSafety(e) == e.kind = "Safety"

\* re.search(r'(-\S+)\s+conflicts with\s+(-\S+)', error) matches
NamesFlagPair(e) == e.kind = "Conflict" /\ e.f1 # "" /\ e.f2 # ""

RECURSIVE FixConflictsFrom(_, _, _)
FixConflictsFrom(parts, errors, i) ==
    IF i > Len(errors) THEN parts
    ELSE LET e == errors[i]
             next == IF ~NamesFlagPair(e) THEN parts
                     ELSE IF Contains(parts, e.f2) THEN RemoveFirst(parts, e.f2)
                     ELSE IF Contains(parts, e.f1) /\ e.f1 # e.f2
                          THEN RemoveFirst(parts, e.f1)
                     ELSE parts
         IN  FixConflictsFrom(next, errors, i + 1)

fix_conflicts(cmd, errors) == FixConflictsFrom(cmd, errors, 1)

fix_syntax(cmd, errors) ==
    LET parts == IF cmd = <<>> \/ cmd[1] # "nmap" THEN <<"nmap">> \o cmd ELSE cmd
    IN  IF Len(parts) < 2 THEN Append(parts, "127.0.0.1") ELSE parts

\* re.sub(r'\s*[>|<]+\s*\S*', '', command): an operator token goes with the
\* token that follows it
RECURSIVE DropRedirections(_)
DropRedirections(cmd) ==
    IF cmd = <<>> THEN <<>>
    ELSE IF IsRedirectToken(Head(cmd))
         THEN (IF Len(cmd) >= 2 THEN DropRedirections(Tail(Tail(cmd))) ELSE <<>>)
    ELSE <<Head(cmd)>> \o DropRedirections(Tail(cmd))

\* re.sub(r'\s*[;&|]+.*$', '', command): cut at the first chaining token
RECURSIVE CutAtChain(_)
CutAtChain(cmd) ==
    IF cmd = <<>> \/ IsChainToken(Head(cmd)) THEN <<>>
    ELSE <<Head(cmd)>> \o CutAtChain(Tail(cmd))

\* re.sub(r'\$\([^)]*\)', '', command) and the same for a backtick pair
DropSubstitutions(cmd) ==
    SelectSeq(cmd, LAMBDA t : t \notin {"$(id)", "backtick-id-backtick"})

fix_safety(cmd) == DropSubstitutions(CutAtChain(DropRedirections(cmd)))

apply_fixes(cmd, v) ==
    LET errors == GetErrors(v)
        c1 == IF \E i \in 1..Len(errors) : MentionsConflict(errors[i])
              THEN fix_conflicts(cmd, errors) ELSE cmd
        c2 == IF \E i \in 1..Len(errors) : MentionsSyntax(errors[i])
              THEN fix_syntax(c1, errors) ELSE c1
        c3 == IF \E i \in 1..Len(errors) : MentionsSafety(errors[i])
              THEN fix_safety(c2) ELSE c2
    IN  IF cmd = <<>> THEN cmd ELSE c3

---------------------------------------------------------------------------
(* decision.py *)

\* a retry penalty growing with every attempt and no final clamp
calculate_confidence_unbounded(is_valid, score, attempts, has_errors, has_warnings, cplx) ==
    LET f1 == IF is_valid /\ score >= ExcellentScore THEN ExcellentBonus
              ELSE IF is_valid /\ score >= GoodScore THEN GoodBonus
              ELSE IF is_valid THEN MinimalBonus
              ELSE 0 - InvalidPenalty
        f2 == IF has_errors THEN 0 - ErrorPenalty ELSE 0
        f3 == IF has_warnings THEN 0 - WarningPenalty ELSE 0
        f4 == IF attempts > 1 THEN 0 - (attempts - 1) * RetryPenaltyStep ELSE 0
        f5 == IF cplx = "EASY" THEN EasyBonus
              ELSE IF cplx = "HARD" THEN 0 - HardPenalty ELSE 0
    IN  BaseConfidence + f1 + f2 + f3 + f4 + f5

calculate_confidence(is_valid, score, attempts, has_errors, has_warnings, cplx) ==
    LET f1 == IF is_valid /\ score >= ExcellentScore THEN ExcellentBonus
              ELSE IF is_valid /\ score >= GoodScore THEN GoodBonus
              ELSE IF is_valid THEN MinimalBonus
              ELSE 0 - InvalidPenalty
        f2 == IF has_errors THEN 0 - ErrorPenalty ELSE 0
        f3 == IF has_warnings THEN 0 - WarningPenalty ELSE 0
        f4 == IF attempts > 1
              THEN 0 - Min(RetryPenaltyCap, (attempts - 1) * RetryPenaltyStep) ELSE 0
        f5 == IF cplx = "EASY" THEN EasyBonus
              ELSE IF cplx = "HARD" THEN 0 - HardPenalty ELSE 0
    IN  Max(0, Min(100, BaseConfidence + f1 + f2 + f3 + f4 + f5))

generate_explanation(is_valid, score, errors, warnings, attempts, corrected) ==
    [headline |-> IF is_valid THEN "valid" ELSE "has validation issues",
     note |-> IF corrected /\ attempts > 1 THEN "corrected after attempts"
              ELSE IF attempts > 1 THEN "generated in attempts" ELSE "",
     errorsShown |-> Min(2, Len(errors)),
     moreErrors |-> Max(0, Len(errors) - 2),
     warningsShown |-> Min(2, Len(warnings)),
     moreWarnings |-> Max(0, Len(warnings) - 2),
     band |-> IF score >= ExcellentScore THEN "high"
              ELSE IF score >= GoodScore THEN "moderate"
              ELSE IF score >= LowBand THEN "low" ELSE "very low"]

make_decision(cmd, v, cplx, attempts, corrected) ==
    LET is_valid == GetValid(v)
        score == GetScore(v)
        errors == GetErrors(v)
        warnings == GetWarnings(v)
    IN  [command |-> cmd,
         confidence |-> calculate_confidence(is_valid, score, attempts,
                                             Len(errors) > 0, Len(warnings) > 0, cplx),
         explanation |-> generate_explanation(is_valid, score, errors, warnings,
                                              attempts, corrected),
         validation |-> v,
         metadata |-> [complexity |-> cplx, attempts |-> attempts,
                       corrected |-> corrected, validation_score |-> score,
                       has_errors |-> Len(errors) > 0,
                       has_warnings |-> Len(warnings) > 0]]

NoDecision == make_decision(<<>>, SyntheticFailure, "MEDIUM", 0, FALSE)

---------------------------------------------------------------------------
(* generator and validator callbacks *)

\* history entry of a failed generation carries the command None
NoneCommand == <<"None">>

ConflictCommand == <<"nmap", "-sS", "-sT", "192.168.1.1">>
PlainCommand == <<"nmap", "192.168.1.1">>

\* what the generator callback may return on a call
GenCommands(m) ==
    IF m = "any" THEN {ConflictCommand, PlainCommand}
    ELSE {PlainCommand, ConflictCommand,
          <<"nmap", "192.168.1.1", "-sS", "-sT">>,
          <<"scan", "192.168.1.1">>,
          <<"nmap", ">", "out.txt", "192.168.1.1">>,
          <<"-sS", "-sT", ">">>,
          <<"nmap">>,
          <<>>}

\* an unconstrained validator_func: any verdict, any score, with or without a
\* conflict finding that the fix step can act on
AnyValidations ==
    {[keys |-> {"valid", "score", "errors"}, valid |-> b, is_valid |-> FALSE,
      score |-> sc, errors |-> errs, warnings |-> <<>>, feedback |-> "",
      vm |-> "none"] :
        b \in BOOLEAN, sc \in {0, 60, 80},
        errs \in {<<>>, <<Error("Conflict", "conflicts with", "-sS", "-sT")>>}}

\* TestSelfCorrection.mock_validator
mock_validator(cmd) ==
    LET noNmap == cmd = <<>> \/ ~StartsWithNmap(cmd[1])
        clash == InCommand("-sS", cmd) /\ InCommand("-sT", cmd)
        errors == (IF noNmap THEN <<Error("Syntax", "Must start with nmap", "", "")>>
                   ELSE <<>>)
                  \o (IF clash
                      THEN <<Error("Conflict", "conflicts with", "-sS", "-sT")>>
                      ELSE <<>>)
        score == 100 - (IF noNmap THEN SyntaxPenalty ELSE 0)
                     - (IF clash THEN ConflictPenalty ELSE 0)
    IN  [keys |-> {"is_valid", "valid", "score", "errors", "feedback"},
         valid |-> Len(errors) = 0, is_valid |-> Len(errors) = 0,
         score |-> Max(0, score), errors |-> errors, warnings |-> <<>>,
         feedback |-> IF Len(errors) = 0 THEN "valid" ELSE "has errors",
         vm |-> "none"]

\* the dicts validator_func(command) may return in a run of the given mode
ValidatorResults(m, cmd, client, available, vmOn) ==
    IF m = "any" THEN AnyValidations
    ELSE IF m = "mock" THEN {mock_validator(cmd)}
    ELSE {full_validation(cmd, client, available, vmOn, o) :
             o \in VmOutcomesFor(cmd, client, available, vmOn)}

---------------------------------------------------------------------------
(* self_correct.SelfCorrector.loop, validator.ValidationPipeline.process *)

NoBest == [isNone |-> TRUE, command |-> <<>>, validation |-> SyntheticFailure,
           attempt |-> 0]

NoResult == [command |-> <<>>, attempts |-> 0, validation |-> SyntheticFailure,
             history |-> <<>>, corrected |-> FALSE]

Returned == pc \in {"returned", "decided"}

\* range(self.max_retries) entered once more than it should be
InRangeOffByOne(a) == a <= max_retries

\* for attempt in range(self.max_retries): another iteration is due
InRange(a) == a < max_retries

\* the generator-failure record numbered from zero
FailureRecordZeroBased(n) ==
    [attempt |-> n - 1, command |-> NoneCommand, error |-> TRUE,
     validation |-> SyntheticFailure]

\* the history record of iteration n when the generator raises
FailureRecord(n) ==
    [attempt |-> n, command |-> NoneCommand, error |-> TRUE,
     validation |-> SyntheticFailure]

\* the acceptance test with a strict comparison
GoodEnoughStrict(v) == GetValid(v) /\ GetScore(v) > AcceptThreshold

\* the loop's acceptance test
GoodEnough(v) == GetValid(v) /\ GetScore(v) >= AcceptThreshold

\* the unchanged-fix test inverted
UnfixableInverted(cmd, v) == apply_fixes(cmd, v) # cmd

\* fixed_command == command: the fix step changed nothing
Unfixable(cmd, v) == apply_fixes(cmd, v) = cmd

\* the attempts value reported when the loop ends without an early accept
ExhaustedAttempts == max_retries

\* the best-so-far update with the comparison reversed
WorseThanBest(score) == score < best_score

\* the best-so-far update compares with best_score, initially 0.0
BetterThanBest(score) == score > best_score

LoopInit ==
    /\ mode \in {"any", "mock", "full"}
    /\ max_retries \in 0..MaxRetriesBound
    /\ complexity \in (IF mode = "full" THEN {"EASY", "MEDIUM", "HARD"} ELSE {"MEDIUM"})
    /\ kg_client \in (IF mode = "full" THEN {"None", "fallback", "raising"} ELSE {"None"})
    /\ KG_AVAILABLE = FALSE
    /\ use_vm_sim = FALSE
    /\ pc = "loop"
    /\ attempt = 0
    /\ command = <<>>
    /\ validation = SyntheticFailure
    /\ history = <<>>
    /\ best_result = NoBest
    /\ best_score = 0
    /\ result = NoResult
    /\ decision = NoDecision
    /\ genCalls = 0
    /\ valCalls = 0
    /\ fixCalls = 0
    /\ vmRuns = 0
    /\ store = NoStore
    /\ ret = NoCall
    /\ runs = NoRuns

config == <<mode, max_retries, complexity, kg_client, KG_AVAILABLE, use_vm_sim>>

\* generator_func(intent, complexity) returns a command
GenerateReturns ==
    /\ pc = "loop"
    /\ InRange(attempt)
    /\ \E cmd \in GenCommands(mode) : command' = cmd
    /\ genCalls' = genCalls + 1
    /\ pc' = "validate"
    /\ UNCHANGED <<config, store, ret, runs, attempt, validation, history, best_result, best_score,
                   result, decision, valCalls, fixCalls, vmRuns>>

\* generator_func raises: the failure is recorded and the loop continues
GeneratorRaises ==
    /\ pc = "loop"
    /\ InRange(attempt)
    /\ genCalls' = genCalls + 1
    /\ history' = Append(history, FailureRecord(attempt + 1))
    /\ attempt' = attempt + 1
    /\ UNCHANGED <<config, store, ret, runs, pc, command, validation, best_result, best_score,
                   result, decision, valCalls, fixCalls, vmRuns>>

\* validate, record the attempt, update the best result, accept if good enough
Validate ==
    /\ pc = "validate"
    /\ \E v \in ValidatorResults(mode, command, kg_client, KG_AVAILABLE, use_vm_sim) :
          LET hist == Append(history, [attempt |-> attempt + 1, command |-> command,
                                       error |-> FALSE, validation |-> v])
              current_score == GetScore(v)
          IN  /\ validation' = v
              /\ history' = hist
              /\ vmRuns' = vmRuns + (IF v.vm = "none" THEN 0 ELSE 1)
              /\ IF BetterThanBest(current_score)
                 THEN /\ best_score' = current_score
                      /\ best_result' = [isNone |-> FALSE, command |-> command,
                                         validation |-> v, attempt |-> attempt + 1]
                 ELSE UNCHANGED <<best_score, best_result>>
              /\ IF GoodEnough(v)
                 THEN /\ result' = [command |-> command, attempts |-> attempt + 1,
                                    validation |-> v, history |-> hist,
                                    corrected |-> attempt > 0]
                      /\ pc' = "returned"
                 ELSE /\ pc' = "fix"
                      /\ UNCHANGED result
    /\ valCalls' = valCalls + 1
    /\ UNCHANGED <<config, store, ret, runs, attempt, command, decision, genCalls, fixCalls>>

\* "Try to fix for next iteration": the fixed command is only compared with the
\* current one; the next iteration calls the generator again
TryFix ==
    /\ pc = "fix"
    /\ IF attempt < max_retries - 1
       THEN /\ fixCalls' = fixCalls + 1
            /\ IF Unfixable(command, validation)
               THEN pc' = "exhausted" /\ UNCHANGED attempt
               ELSE pc' = "loop" /\ attempt' = attempt + 1
       ELSE /\ pc' = "loop"
            /\ attempt' = attempt + 1
            /\ UNCHANGED fixCalls
    /\ UNCHANGED <<config, store, ret, runs, command, validation, history, best_result, best_score,
                   result, decision, genCalls, valCalls, vmRuns>>

\* "Return best attempt": after the last iteration or after a break
ReturnBest ==
    /\ \/ pc = "loop" /\ ~InRange(attempt)
       \/ pc = "exhausted"
    /\ result' =
          IF ~best_result.isNone
          THEN [command |-> best_result.command, attempts |-> ExhaustedAttempts,
                validation |-> best_result.validation, history |-> history,
                corrected |-> best_result.attempt > 1]
          ELSE [command |-> IF history # <<>> THEN history[Len(history)].command
                            ELSE <<>>,
                attempts |-> ExhaustedAttempts,
                validation |-> IF history # <<>>
                               THEN history[Len(history)].validation
                               ELSE SyntheticFailure,
                history |-> history,
                corrected |-> FALSE]
    /\ pc' = "returned"
    /\ UNCHANGED <<config, store, ret, runs, attempt, command, validation, history, best_result,
                   best_score, decision, genCalls, valCalls, fixCalls, vmRuns>>

\* ValidationPipeline.process: the decision on the loop's result
Decide ==
    /\ pc = "returned"
    /\ mode = "full"
    /\ decision' = make_decision(result.command, result.validation, complexity,
                                 result.attempts, result.corrected)
    /\ pc' = "decided"
    /\ UNCHANGED <<config, store, ret, runs, attempt, command, validation, history, best_result,
                   best_score, result, genCalls, valCalls, fixCalls, vmRuns>>

Init == LoopInit

Next ==
    \/ GenerateReturns
    \/ GeneratorRaises
    \/ Validate
    \/ TryFix
    \/ ReturnBest
    \/ Decide

Spec == Init /\ [][Next]_vars

---------------------------------------------------------------------------
(* CommandValidator.full_validation called directly on any command *)

ValidateInit ==
    /\ mode = "full"
    /\ max_retries = 0
    /\ complexity = "MEDIUM"
    /\ kg_client \in {"None", "fallback", "raising"}
    /\ KG_AVAILABLE \in BOOLEAN
    /\ use_vm_sim \in BOOLEAN
    /\ pc = "call"
    /\ attempt = 0
    /\ command \in SeqsUpTo(Tokens, MaxCmdLen)
    /\ validation = SyntheticFailure
    /\ history = <<>>
    /\ best_result = NoBest
    /\ best_score = 0
    /\ result = NoResult
    /\ decision = NoDecision
    /\ genCalls = 0
    /\ valCalls = 0
    /\ fixCalls = 0
    /\ vmRuns = 0
    /\ store = NoStore
    /\ ret = NoCall
    /\ runs = NoRuns

FullValidation ==
    /\ pc = "call"
    /\ \E o \in VmOutcomesFor(command, kg_client, KG_AVAILABLE, use_vm_sim) :
          LET v == full_validation(command, kg_client, KG_AVAILABLE, use_vm_sim, o)
          IN  /\ validation' = v
              /\ vmRuns' = vmRuns + (IF v.vm = "none" THEN 0 ELSE 1)
    /\ valCalls' = valCalls + 1
    /\ pc' = "validated"
    /\ UNCHANGED <<config, store, ret, runs, attempt, command, history, best_result, best_score,
                   result, decision, genCalls, fixCalls>>

ValidateNext == FullValidation

SpecValidate == ValidateInit /\ [][ValidateNext]_vars

---------------------------------------------------------------------------
(* CommandValidator.full_validation called on commands of the usual shapes:   *)
(* the program token, argument tokens (flags, redirections) and one target,  *)
(* the target last or first                                                  *)

ArgTokens == {"-sS", "-sT", "-sn", "-p", "-sV", "-O", "-Pn", ">", ">>"}

ArgCommands ==
    LET args == SeqsUpTo(ArgTokens, MaxArgs)
    IN  {<<"nmap">> \o a \o <<t>> : a \in args, t \in TargetTokens}
        \cup {<<"nmap", t>> \o a : a \in args, t \in TargetTokens}

\* "nmap A B target" for every ordered pair of short flags
PairCommands ==
    {<<"nmap", a, b, "192.168.1.1">> : a \in ShortFlagTokens, b \in ShortFlagTokens}

CheckersInit ==
    /\ mode = "full"
    /\ max_retries = 0
    /\ complexity = "MEDIUM"
    /\ kg_client \in {"None", "fallback", "raising"}
    /\ KG_AVAILABLE \in BOOLEAN
    /\ use_vm_sim = FALSE
    /\ pc = "call"
    /\ attempt = 0
    /\ command \in ArgCommands \cup PairCommands
    /\ validation = SyntheticFailure
    /\ history = <<>>
    /\ best_result = NoBest
    /\ best_score = 0
    /\ result = NoResult
    /\ decision = NoDecision
    /\ genCalls = 0
    /\ valCalls = 0
    /\ fixCalls = 0
    /\ vmRuns = 0
    /\ store = NoStore
    /\ ret = NoCall
    /\ runs = NoRuns

SpecCheckers == CheckersInit /\ [][ValidateNext]_vars

---------------------------------------------------------------------------
(* CommandValidator.full_validation called on commands with several flags of *)
(* the conflict tables: a target, then the flags                             *)

ConflictTokens == {"-sn", "-p", "-sS", "-sT", "-Pn", "-PS"}

ConflictsInit ==
    /\ mode = "full"
    /\ max_retries = 0
    /\ complexity = "MEDIUM"
    /\ kg_client \in {"None", "fallback", "raising"}
    /\ KG_AVAILABLE \in BOOLEAN
    /\ use_vm_sim = FALSE
    /\ pc = "call"
    /\ attempt = 0
    /\ command \in {<<"nmap", "192.168.1.1">> \o a :
                        a \in SeqsUpTo(ConflictTokens, MaxConflictFlags)}
    /\ validation = SyntheticFailure
    /\ history = <<>>
    /\ best_result = NoBest
    /\ best_score = 0
    /\ result = NoResult
    /\ decision = NoDecision
    /\ genCalls = 0
    /\ valCalls = 0
    /\ fixCalls = 0
    /\ vmRuns = 0
    /\ store = NoStore
    /\ ret = NoCall
    /\ runs = NoRuns

SpecConflicts == ConflictsInit /\ [][ValidateNext]_vars

---------------------------------------------------------------------------
(* SelfCorrector.apply_fixes called on a command and its full validation     *)

ApplyFixes ==
    /\ pc = "validated"
    /\ ret' = [op |-> "apply_fixes", value |-> apply_fixes(command, validation)]
    /\ fixCalls' = fixCalls + 1
    /\ pc' = "fixed"
    /\ UNCHANGED <<config, store, runs, attempt, command, validation, history,
                   best_result, best_score, result, decision, genCalls, valCalls,
                   vmRuns>>

FixNext == FullValidation \/ ApplyFixes

SpecFix == ValidateInit /\ [][FixNext]_vars

---------------------------------------------------------------------------
(* CommandValidator.quick_validation called after full_validation on the    *)
(* same validator and command                                                *)

QuickValidation ==
    /\ pc = "validated"
    /\ ret' = [op |-> "quick_validation", value |-> quick_validation(command)]
    /\ pc' = "quick"
    /\ UNCHANGED <<config, store, runs, attempt, command, validation, history, best_result,
                   best_score, result, decision, genCalls, valCalls, fixCalls, vmRuns>>

QuickNext == FullValidation \/ QuickValidation

SpecQuick == CheckersInit /\ [][QuickNext]_vars

---------------------------------------------------------------------------
(* kg_utils.Neo4jClient: construction and queries.  The graph backend is     *)
(* external: it is reachable or not at construction and at every query, and  *)
(* what it answers is one of BackendAnswers.                                  *)

\* the options a query names
QueryOptions ==
    {FallbackOptionNames[i] : i \in 1..Len(FallbackOptionNames)}
    \cup {ScanTypeFlags[i] : i \in 1..Len(ScanTypeFlags)}
    \cup {"--bogus"}

\* what a reachable backend may answer to a query whose fallback answer is a
BackendAnswers(a) == {<<>>, a}

StoreInit ==
    /\ mode = "full"
    /\ max_retries = 0
    /\ complexity = "MEDIUM"
    /\ kg_client = "None"
    /\ KG_AVAILABLE = TRUE
    /\ use_vm_sim = FALSE
    /\ pc = "new"
    /\ attempt = 0
    /\ command = <<>>
    /\ validation = SyntheticFailure
    /\ history = <<>>
    /\ best_result = NoBest
    /\ best_score = 0
    /\ result = NoResult
    /\ decision = NoDecision
    /\ genCalls = 0
    /\ valCalls = 0
    /\ fixCalls = 0
    /\ vmRuns = 0
    /\ store = NoStore
    /\ ret = NoCall
    /\ runs = NoRuns

\* everything but pc and store
notStore == <<config, ret, runs, attempt, command, validation, history, best_result, best_score,
              result, decision, genCalls, valCalls, fixCalls, vmRuns>>

\* the query leaves through an exception
QueryRaised(st) == [st EXCEPT !.outcome = "raised", !.source = "none", !.answer = <<>>]

\* the query returns a list
QueryReturned(st, source, answer) ==
    [st EXCEPT !.outcome = "returned", !.source = source, !.answer = answer]

\* Neo4jClient(): _connect either gets a driver that answers "RETURN 1", or
\* catches the failure, resets the driver and loads the fallback data
Connect ==
    /\ pc = "new"
    /\ \E reachable \in BOOLEAN :
          store' = IF reachable
                   THEN [store EXCEPT !.driver = "driver"]
                   ELSE [store EXCEPT !.driver = "None", !.fallback_options = TRUE]
    /\ pc' = "ready"
    /\ UNCHANGED notStore

\* Neo4jClient.get_conflicts(option)
GetConflicts ==
    /\ pc = "ready"
    /\ store.queries < MaxQueries
    /\ \E option \in QueryOptions :
          LET asked == [store EXCEPT !.queries = @ + 1, !.op = "get_conflicts",
                                     !.option = option, !.requires_root = "None",
                                     !.category = "None", !.exclude_conflicts = <<>>]
          IN  IF store.driver = "driver"
              THEN \/ store' = QueryRaised(asked)
                   \/ \E a \in BackendAnswers(FallbackConflicts(option)) :
                         store' = QueryReturned(asked, "backend", a)
              ELSE store' = QueryReturned(asked, "fallback", get_conflicts(option))
    /\ UNCHANGED <<pc, notStore>>

\* Neo4jClient.get_options(requires_root, category, exclude_conflicts)
GetOptions ==
    /\ pc = "ready"
    /\ store.queries < MaxQueries
    /\ \E requires_root \in {"None", "True", "False"},
          category \in {"None", "SCAN_TYPE", "TIMING"},
          exclude_conflicts \in {<<>>, <<"-sn">>, <<"-F", "-T4">>} :
          LET asked == [store EXCEPT !.queries = @ + 1, !.op = "get_options",
                                     !.option = "", !.requires_root = requires_root,
                                     !.category = category,
                                     !.exclude_conflicts = exclude_conflicts]
              fallback == get_options_fallback(requires_root, category,
                                               exclude_conflicts)
          IN  IF store.driver = "driver"
              THEN \/ store' = QueryRaised(asked)
                   \/ \E a \in BackendAnswers(fallback) :
                         store' = QueryReturned(asked, "backend", a)
              ELSE store' = QueryReturned(asked, "fallback", fallback)
    /\ UNCHANGED <<pc, notStore>>

StoreNext == Connect \/ GetConflicts \/ GetOptions

SpecStore == StoreInit /\ [][StoreNext]_vars

---------------------------------------------------------------------------
(* safety_checker.validate_safety called directly on any command *)

\* "backtick-id-backtick" stands for the token id between two U+0060
SafetyTokens ==
    {"nmap", "192.168.1.1", "-sV", "out.txt", ">", "|", ";", "&&", "$(id)",
     "backtick-id-backtick", "<", "rm", "sudo"}

SafetyInit ==
    /\ mode = "full"
    /\ max_retries = 0
    /\ complexity = "MEDIUM"
    /\ kg_client = "None"
    /\ KG_AVAILABLE = FALSE
    /\ use_vm_sim = FALSE
    /\ pc = "check"
    /\ attempt = 0
    /\ command \in SeqsUpTo(SafetyTokens, MaxSafetyLen)
    /\ validation = SyntheticFailure
    /\ history = <<>>
    /\ best_result = NoBest
    /\ best_score = 0
    /\ result = NoResult
    /\ decision = NoDecision
    /\ genCalls = 0
    /\ valCalls = 0
    /\ fixCalls = 0
    /\ vmRuns = 0
    /\ store = NoStore
    /\ ret = NoCall
    /\ runs = NoRuns

ValidateSafety ==
    /\ pc = "check"
    /\ ret' = [op |-> "validate_safety", value |-> validate_safety(command)]
    /\ pc' = "checked"
    /\ UNCHANGED <<config, store, runs, attempt, command, validation, history, best_result,
                   best_score, result, decision, genCalls, valCalls, fixCalls, vmRuns>>

SafetyNext == ValidateSafety

SpecSafety == SafetyInit /\ [][SafetyNext]_vars

---------------------------------------------------------------------------
(* decision.make_decision called on any validation and generation info *)

\* validation dicts with every combination of verdict, score (also outside
\* [0, 1]), errors and warnings
DecisionValidations ==
    {[keys |-> {"valid", "score", "errors", "warnings"}, valid |-> b, is_valid |-> b,
      score |-> sc, errors |-> errs, warnings |-> warns, feedback |-> "",
      vm |-> "none"] :
        b \in BOOLEAN, sc \in {0 - 20, 0, 50, 70, 90, 100, 150},
        errs \in {<<>>, <<Error("Syntax", "No target specified", "", "")>>},
        warns \in {<<>>, <<"requires root">>}}

DecisionInit ==
    /\ mode = "full"
    /\ max_retries = 0
    /\ complexity \in {"EASY", "MEDIUM", "HARD", "UNKNOWN"}
    /\ kg_client = "None"
    /\ KG_AVAILABLE = FALSE
    /\ use_vm_sim = FALSE
    /\ pc = "returned"
    /\ attempt = 0
    /\ command = <<>>
    /\ validation = SyntheticFailure
    /\ history = <<>>
    /\ best_result = NoBest
    /\ best_score = 0
    /\ result \in {[command |-> PlainCommand, attempts |-> a, validation |-> v,
                     history |-> <<>>, corrected |-> c] :
                       a \in (0 - 1)..MaxAttemptsInput, v \in DecisionValidations,
                       c \in BOOLEAN}
    /\ decision = NoDecision
    /\ genCalls = 0
    /\ valCalls = 0
    /\ fixCalls = 0
    /\ vmRuns = 0
    /\ store = NoStore
    /\ ret = NoCall
    /\ runs = NoRuns

DecisionNext == Decide

SpecDecision == DecisionInit /\ [][DecisionNext]_vars

---------------------------------------------------------------------------
(* Concurrent calls of SelfCorrector.loop on one SelfCorrector, validating    *)
(* with one CommandValidator.  The steps of the calls interleave freely.  The *)
(* instance fields (max_retries, kg_client, use_vm_sim) are shared; attempt,  *)
(* command and validation are locals of each call, and so are history,        *)
(* best_result and best_score, kept in the frame of the call.                 *)

RunIds == {"a", "b"}

\* history, best_result and best_score held on the instance: one frame for
\* every call
FrameOnInstance(r) == "a"

\* history = [], best_result = None, best_score = 0.0 are locals: every call
\* of loop has its own frame
Frame(r) == r

\* what the generator callback may return to a concurrent run
ConcurrentCommands == {PlainCommand, ConflictCommand, <<"nmap">>}

NewLocal ==
    [pc |-> "loop", attempt |-> 0, command |-> <<>>, validation |-> SyntheticFailure,
     result |-> NoResult, log |-> <<>>]

NewFrame == [history |-> <<>>, best_result |-> NoBest, best_score |-> 0]

ConcurrentInit ==
    /\ mode \in {"mock", "full"}
    /\ max_retries = ConcurrentRetries
    /\ complexity = "MEDIUM"
    /\ kg_client = "None"
    /\ KG_AVAILABLE = FALSE
    /\ use_vm_sim = FALSE
    /\ pc = "concurrent"
    /\ attempt = 0
    /\ command = <<>>
    /\ validation = SyntheticFailure
    /\ history = <<>>
    /\ best_result = NoBest
    /\ best_score = 0
    /\ result = NoResult
    /\ decision = NoDecision
    /\ genCalls = 0
    /\ valCalls = 0
    /\ fixCalls = 0
    /\ vmRuns = 0
    /\ store = NoStore
    /\ ret = NoCall
    /\ runs = [local |-> [r \in RunIds |-> NewLocal],
               frame |-> [f \in RunIds |-> NewFrame]]

\* everything but runs
notRuns == <<config, store, ret, pc, attempt, command, validation, history,
             best_result, best_score, result, decision, genCalls, valCalls, fixCalls,
             vmRuns>>

\* generator_func(intent, complexity) returns a command to run r
RunGenerateReturns(r) ==
    LET l == runs.local[r]
    IN  /\ l.pc = "loop"
        /\ InRange(l.attempt)
        /\ \E cmd \in ConcurrentCommands :
              runs' = [runs EXCEPT !.local[r].command = cmd,
                                   !.local[r].pc = "validate"]
        /\ UNCHANGED notRuns

\* generator_func raises in run r
RunGeneratorRaises(r) ==
    LET l == runs.local[r]
        rec == FailureRecord(l.attempt + 1)
    IN  /\ l.pc = "loop"
        /\ InRange(l.attempt)
        /\ runs' = [runs EXCEPT !.frame[Frame(r)].history = Append(@, rec),
                                !.local[r].log = Append(@, rec),
                                !.local[r].attempt = @ + 1]
        /\ UNCHANGED notRuns

\* run r validates, records the attempt, updates the best result and accepts
\* if good enough
RunValidate(r) ==
    LET l == runs.local[r]
        f == runs.frame[Frame(r)]
    IN  /\ l.pc = "validate"
        /\ \E v \in ValidatorResults(mode, l.command, kg_client, KG_AVAILABLE,
                                      use_vm_sim) :
              LET rec == [attempt |-> l.attempt + 1, command |-> l.command,
                          error |-> FALSE, validation |-> v]
                  hist == Append(f.history, rec)
                  better == GetScore(v) > f.best_score
                  newFrame ==
                      [history |-> hist,
                       best_result |-> IF better
                                       THEN [isNone |-> FALSE, command |-> l.command,
                                             validation |-> v,
                                             attempt |-> l.attempt + 1]
                                       ELSE f.best_result,
                       best_score |-> IF better THEN GetScore(v) ELSE f.best_score]
                  newLocal ==
                      IF GoodEnough(v)
                      THEN [l EXCEPT !.validation = v, !.log = Append(@, rec),
                                     !.pc = "returned",
                                     !.result = [command |-> l.command,
                                                 attempts |-> l.attempt + 1,
                                                 validation |-> v, history |-> hist,
                                                 corrected |-> l.attempt > 0]]
                      ELSE [l EXCEPT !.validation = v, !.log = Append(@, rec),
                                     !.pc = "fix"]
              IN  runs' = [runs EXCEPT !.frame[Frame(r)] = newFrame,
                                       !.local[r] = newLocal]
        /\ UNCHANGED notRuns

\* run r tries the fix and goes on, or breaks if the fix changed nothing
RunTryFix(r) ==
    LET l == runs.local[r]
    IN  /\ l.pc = "fix"
        /\ runs' = IF l.attempt < max_retries - 1 /\ Unfixable(l.command, l.validation)
                   THEN [runs EXCEPT !.local[r].pc = "exhausted"]
                   ELSE [runs EXCEPT !.local[r].pc = "loop",
                                     !.local[r].attempt = @ + 1]
        /\ UNCHANGED notRuns

\* run r returns its best attempt
RunReturnBest(r) ==
    LET l == runs.local[r]
        f == runs.frame[Frame(r)]
    IN  /\ \/ l.pc = "loop" /\ ~InRange(l.attempt)
           \/ l.pc = "exhausted"
        /\ runs' =
              [runs EXCEPT
                 !.local[r].pc = "returned",
                 !.local[r].result =
                    IF ~f.best_result.isNone
                    THEN [command |-> f.best_result.command,
                          attempts |-> ExhaustedAttempts,
                          validation |-> f.best_result.validation,
                          history |-> f.history,
                          corrected |-> f.best_result.attempt > 1]
                    ELSE [command |-> IF f.history # <<>>
                                      THEN f.history[Len(f.history)].command
                                      ELSE <<>>,
                          attempts |-> ExhaustedAttempts,
                          validation |-> IF f.history # <<>>
                                         THEN f.history[Len(f.history)].validation
                                         ELSE SyntheticFailure,
                          history |-> f.history,
                          corrected |-> FALSE]]
        /\ UNCHANGED notRuns

ConcurrentNext ==
    \E r \in RunIds :
        \/ RunGenerateReturns(r)
        \/ RunGeneratorRaises(r)
        \/ RunValidate(r)
        \/ RunTryFix(r)
        \/ RunReturnBest(r)

SpecConcurrent == ConcurrentInit /\ [][ConcurrentNext]_vars

---------------------------------------------------------------------------
(* Properties *)

\* what a validation dict says under the key the loop reads
ReportsGood(v) == "valid" \in v.keys /\ v.valid /\ v.score >= 80

NoGenerationFailed == \A i \in 1..Len(history) : ~history[i].error

\* index of the earliest attempt with the highest score
EarliestBest(h) ==
    CHOOSE k \in 1..Len(h) :
        /\ \A j \in 1..Len(h) : h[j].validation.score <= h[k].validation.score
        /\ \A j \in 1..(k - 1) : h[j].validation.score < h[k].validation.score

\* work left in the run: decreases with every step
Measure ==
    IF pc = "decided" THEN 0
    ELSE IF pc = "returned" THEN 1
    ELSE IF pc = "exhausted" THEN 2
    ELSE 4 * (max_retries + 1 - attempt)
         + (IF pc = "loop" THEN 3 ELSE IF pc = "validate" THEN 2 ELSE 1)

C1_Counts ==
    /\ attempt <= max_retries
    /\ genCalls <= max_retries
    /\ Len(history) <= max_retries
    /\ Returned => /\ result.attempts <= max_retries
                   /\ Len(result.history) <= max_retries

\* C1: SelfCorrector.loop terminates within max_retries iterations: every step
\* reduces the work left, the generator is called at most max_retries times,
\* the history has at most max_retries records and the returned attempts value
\* is at most max_retries, whatever the generator and the validator do.
C1_TerminatesWithinMaxRetries ==
    [](C1_Counts /\ Measure >= 0) /\ [][Measure' < Measure]_vars

C1_Witness ==
    /\ Returned
    /\ mode = "any"
    /\ max_retries >= 2
    /\ genCalls = max_retries
    /\ Len(result.history) = max_retries
    /\ \E i \in 1..Len(history) : history[i].error

\* C2: with the test's validator and a generator that always returns the
\* conflicting command, a run with at least two retries returns within two
\* attempts a valid command different from the generated one, with corrected
\* set; an unchanged invalid command is returned only if the fix step cannot
\* change it.
C2_ConflictIsCorrected ==
    (/\ Returned
     /\ mode = "mock"
     /\ max_retries >= 2
     /\ history # <<>>
     /\ \A i \in 1..Len(history) : history[i].command = ConflictCommand)
    => /\ \/ /\ result.attempts <= 2
             /\ result.validation.valid
             /\ result.command # ConflictCommand
             /\ result.corrected
          \/ apply_fixes(ConflictCommand, mock_validator(ConflictCommand))
                 = ConflictCommand

\* C3: in the pipeline, a first command that full_validation judges valid with
\* score >= 0.8 is accepted on the first iteration and decided as a valid
\* single-attempt result: attempts 1, not corrected, confidence computed with
\* the validity bonus, valid headline.
C3_FirstValidCommandAccepted ==
    (/\ pc = "decided"
     /\ history # <<>>
     /\ ~history[1].error
     /\ history[1].validation.is_valid
     /\ history[1].validation.score >= 80)
    => /\ Len(history) = 1
       /\ decision.command = history[1].command
       /\ decision.metadata.attempts = 1
       /\ decision.metadata.corrected = FALSE
       /\ decision.confidence =
             calculate_confidence(TRUE, history[1].validation.score, 1, FALSE,
                                  history[1].validation.warnings # <<>>, complexity)
       /\ decision.explanation.headline = "valid"

\* C4: once the validator reports an attempt valid with score >= 0.8, the loop
\* has returned with that attempt: it is the last record, the result carries
\* its command and validation, attempts and the history length equal its
\* index, and no generator or validator call follows it.
C4_EarlyAccept ==
    \A k \in 1..Len(history) :
        (~history[k].error /\ ReportsGood(history[k].validation))
        => /\ Returned
           /\ k = Len(history)
           /\ result.command = history[k].command
           /\ result.validation = history[k].validation
           /\ result.attempts = k
           /\ Len(result.history) = k
           /\ genCalls = k
           /\ valCalls = Cardinality({i \in 1..k : ~history[i].error})
           /\ attempt = k - 1
           /\ k <= max_retries

C4_Witness ==
    /\ Returned
    /\ Len(history) = 2
    /\ max_retries = 3
    /\ ~history[1].error
    /\ ReportsGood(history[2].validation)
    /\ result.attempts = 2

\* C5: when an attempt is not accepted, retries remain and the fix step returns
\* the same command, the loop stops: the next step leaves the loop without a
\* generator or validator call, and the run returns that history, which has
\* fewer than max_retries records.
C5_UnchangedFixStops ==
    /\ [][(/\ pc = "fix"
           /\ attempt < max_retries - 1
           /\ apply_fixes(command, validation) = command)
          => (/\ pc' = "exhausted"
              /\ UNCHANGED <<genCalls, valCalls, history>>)]_vars
    /\ [][pc = "exhausted"
          => (/\ pc' = "returned"
              /\ UNCHANGED <<genCalls, valCalls, history>>
              /\ result'.history = history
              /\ Len(result'.history) < max_retries)]_vars

C5_Witness ==
    /\ pc = "exhausted"
    /\ max_retries = 3
    /\ Len(history) = 2
    /\ apply_fixes(command, validation) = command

\* C6: in every result the attempt count is the number of attempts made, the
\* length of the returned history.
C6_AttemptsIsHistoryLength ==
    Returned => result.attempts = Len(result.history)

\* C7: a generator failure is caught: the step that meets it appends exactly
\* one record with a null command and the synthetic validation (valid false,
\* score 0), consumes the retry slot, applies no fix and validates nothing, and
\* the loop goes on; every failure record has that shape; when every iteration
\* failed, the run still returns, with an invalid validation.
C7_GeneratorFailureRecorded ==
    /\ [][(pc = "loop" /\ genCalls' = genCalls + 1 /\ pc' # "validate")
          => (/\ history' = Append(history,
                     [attempt |-> attempt + 1, command |-> NoneCommand,
                      error |-> TRUE,
                      validation |->
                          [keys |-> {"valid", "score"}, valid |-> FALSE,
                           is_valid |-> FALSE, score |-> 0, errors |-> <<>>,
                           warnings |-> <<>>, feedback |-> "", vm |-> "none"]])
              /\ attempt' = attempt + 1
              /\ pc' = "loop"
              /\ UNCHANGED <<fixCalls, valCalls, best_result, best_score>>)]_vars
    /\ [](\A i \in 1..Len(history) :
             history[i].error
             => /\ history[i].command = NoneCommand
                /\ history[i].attempt = i
                /\ ~GetValid(history[i].validation)
                /\ GetScore(history[i].validation) = 0)
    /\ []((Returned /\ \A i \in 1..Len(history) : history[i].error)
          => /\ ~GetValid(result.validation)
             /\ GetScore(result.validation) = 0
             /\ Len(result.history) = max_retries)

C7_Witness ==
    /\ Returned
    /\ max_retries = 3
    /\ Len(result.history) = 3
    /\ \A i \in 1..3 : result.history[i].error

\* C8: a run that ends without an early accept (here: one whose generator never
\* raised) returns the command and validation of the attempt with the highest
\* score, the earliest one among equals, also when all scores are 0.
C8_ReturnsEarliestBest ==
    (/\ Returned
     /\ history # <<>>
     /\ NoGenerationFailed
     /\ \A i \in 1..Len(history) : ~ReportsGood(history[i].validation))
    => /\ result.command = history[EarliestBest(history)].command
       /\ result.validation = history[EarliestBest(history)].validation

\* C9: in every result (here: of a run whose generator never raised) corrected
\* is true exactly when the returned attempt is not the first one.
C9_CorrectedIffNotFirst ==
    (Returned /\ history # <<>> /\ NoGenerationFailed)
    => LET returnedAttempt ==
               IF ReportsGood(result.validation) \/ best_result.isNone
               THEN Len(history) ELSE best_result.attempt
       IN  result.corrected <=> returnedAttempt # 1

\* C10: the result of full_validation has a score within [0, 1] and is_valid
\* equal to (no error and score >= 0.5), for every command.
C10_ScoreRangeAndValidity ==
    pc = "validated"
    => /\ 0 <= validation.score
       /\ validation.score <= 100
       /\ validation.is_valid <=> (validation.errors = <<>> /\ validation.score >= 50)

C10_Witness ==
    /\ pc = "validated"
    /\ Len(validation.errors) = 3
    /\ validation.score = 0
    /\ ~validation.is_valid


\* kinds of the Error entries of a validation, in order
ErrorKinds(v) == [i \in 1..Len(v.errors) |-> v.errors[i].kind]

CountKind(v, kind) == Cardinality({i \in 1..Len(v.errors) : v.errors[i].kind = kind})

\* the blocking safety findings of a command
BlockingFindings(cmd) ==
    Cardinality({i \in 1..Len(BLACKLIST_PATTERNS) : InCommand(BLACKLIST_PATTERNS[i], cmd)})
    + (IF InCommand("--script", cmd)
       THEN Cardinality({i \in 1..Len(FORBIDDEN_SCRIPTS) :
                            InCommand(FORBIDDEN_SCRIPTS[i], cmd)})
       ELSE 0)

\* C11: a command with n >= 1 blocking safety findings and no syntax or
\* conflict failure gets n Safety errors (and no other error) and the score
\* max(0, 1 - 0.5 * n).
C11_SafetyPenaltyPerFinding ==
    (/\ pc = "validated"
     /\ validate_syntax(command).valid
     /\ validate_conflicts(command, kg_client, KG_AVAILABLE).valid
     /\ BlockingFindings(command) >= 1)
    => /\ CountKind(validation, "Safety") = BlockingFindings(command)
       /\ Len(validation.errors) = BlockingFindings(command)
       /\ validation.score = Max(0, 100 - SafetyPenalty * BlockingFindings(command))

KindRank(kind) == IF kind = "Syntax" THEN 1 ELSE IF kind = "Conflict" THEN 2 ELSE 3

\* C12: full_validation runs every check whatever the earlier ones found: the
\* result has a Syntax error exactly when the syntax check fails, a Conflict
\* error exactly when the conflict check fails, Safety errors exactly when the
\* safety check fails and the privilege warning exactly when a root flag is
\* present; the errors are ordered syntax, conflict, safety.
C12_NoShortCircuit ==
    pc = "validated"
    => /\ CountKind(validation, "Syntax") =
              (IF validate_syntax(command).valid THEN 0 ELSE 1)
       /\ CountKind(validation, "Conflict") =
              (IF validate_conflicts(command, kg_client, KG_AVAILABLE).valid
               THEN 0 ELSE 1)
       /\ CountKind(validation, "Safety") = BlockingFindings(command)
       /\ (check_requires_root(command, kg_client, KG_AVAILABLE) # <<>>)
              <=> Contains(validation.warnings, "requires root")
       /\ \A i, j \in 1..Len(validation.errors) :
              i < j => KindRank(validation.errors[i].kind)
                          <= KindRank(validation.errors[j].kind)

C12_Witness ==
    /\ pc = "validated"
    /\ ErrorKinds(validation) = <<"Syntax", "Conflict", "Safety">>
    /\ Contains(validation.warnings, "requires root")

\* C13: advisory findings and privilege requirements add warnings only: with
\* the VM simulation off, every Error is a Syntax, Conflict or Safety error of
\* a failed check, and a command that passes the syntax, conflict and
\* blocking-safety checks is valid with score 1.0 and no Error, whatever
\* warnings it carries.
C13_WarningsNeverBlock ==
    (pc = "validated" /\ ~use_vm_sim)
    => /\ Len(validation.errors) =
              (IF validate_syntax(command).valid THEN 0 ELSE 1)
              + (IF validate_conflicts(command, kg_client, KG_AVAILABLE).valid
                 THEN 0 ELSE 1)
              + BlockingFindings(command)
       /\ (/\ validate_syntax(command).valid
           /\ validate_conflicts(command, kg_client, KG_AVAILABLE).valid
           /\ validate_safety(command))
          => /\ validation.is_valid
             /\ validation.score = 100
             /\ validation.errors = <<>>

C13_Witness ==
    /\ pc = "validated"
    /\ ~use_vm_sim
    /\ validation.is_valid
    /\ validation.score = 100
    /\ Contains(validation.warnings, "requires root")
    /\ Contains(validation.warnings, "os detection")
    /\ Len(validation.warnings) = 2

\* C14: validate_with_vm is called at most once per validation and only when
\* VM simulation is enabled, the syntax check passed and no Error was recorded;
\* a command with an Error is never run.
C14_VmOnlyForCleanCommands ==
    pc = "validated"
    => /\ vmRuns <= 1
       /\ (vmRuns = 1) <=> (validation.vm # "none")
       /\ vmRuns = 1 => /\ use_vm_sim
                        /\ validate_syntax(command).valid
                        /\ validation.errors = <<>>
       /\ validation.errors # <<>> => vmRuns = 0

C14_Witness ==
    /\ pc = "validated"
    /\ vmRuns = 1
    /\ use_vm_sim
    /\ validation.vm = "ran"
    /\ validation.errors = <<>>


\* nmap, two different scan-type flags and an IPv4 target, the target last or first
TwoScanTypes(cmd) ==
    /\ Len(cmd) = 4
    /\ cmd[1] = "nmap"
    /\ \/ /\ cmd[4] = "192.168.1.1"
          /\ Contains(ScanTypeFlags, cmd[2]) /\ Contains(ScanTypeFlags, cmd[3])
          /\ cmd[2] # cmd[3]
       \/ /\ cmd[2] = "192.168.1.1"
          /\ Contains(ScanTypeFlags, cmd[3]) /\ Contains(ScanTypeFlags, cmd[4])
          /\ cmd[3] # cmd[4]

\* C15: with the hardcoded conflict rules, full_validation of a command made of
\* nmap, two different scan-type flags and an IPv4 target is invalid with
\* exactly one Error, and that Error names both flags.
C15_OneErrorNamingBothFlags ==
    (/\ pc = "validated"
     /\ ClientUsed(kg_client, KG_AVAILABLE) # "fallback"
     /\ TwoScanTypes(command))
    => /\ ~validation.is_valid
       /\ Len(validation.errors) = 1
       /\ \E a, b \in {command[2], command[3], command[4]} \ {"192.168.1.1"} :
              /\ a # b
              /\ validation.errors[1].f1 = a
              /\ validation.errors[1].f2 = b

\* KNOWN_FLAGS of the vocabulary that take no argument
NoArgKnownFlags ==
    {"-sS", "-sT", "-sU", "-sn", "-sA", "-sW", "-sN", "-sF", "-sX", "-sV", "-O",
     "-A", "-T4", "-Pn"}

\* C16: validate_syntax accepts every command made of nmap, one or more known
\* flags that take no argument and a final well-formed target: full_validation
\* records no Syntax error for it.
C16_FlagsThenTargetAccepted ==
    (/\ pc = "validated"
     /\ Len(command) >= 3
     /\ command[1] = "nmap"
     /\ \A i \in 2..(Len(command) - 1) : command[i] \in NoArgKnownFlags
     /\ command[Len(command)] \in TargetTokens)
    => CountKind(validation, "Syntax") = 0


\* the pair is listed as conflicting by the hardcoded rules, in one direction
\* or the other
KnownConflict(a, b) ==
    Contains(get_all_conflicts(a), b) \/ Contains(get_all_conflicts(b), a)

\* C17: with the hardcoded rules active, a command that contains both flags
\* of a pair the rules list as conflicting fails the conflict check, in either
\* order of the two flags, and a command with a valid target whose extracted
\* flags hold no such pair passes it.
C17_KnownPairsFailOthersPass ==
    (pc = "validated" /\ ClientUsed(kg_client, KG_AVAILABLE) # "fallback")
    => LET flags == extract_flags(command)
       IN  /\ (\E i, j \in 1..Len(command) : KnownConflict(command[i], command[j]))
                  => CountKind(validation, "Conflict") = 1
           /\ (/\ \A i, j \in 1..Len(flags) : ~KnownConflict(flags[i], flags[j])
               /\ \E i \in 2..Len(command) : command[i] \in TargetTokens)
                  => CountKind(validation, "Conflict") = 0

C17_Witness ==
    /\ pc = "validated"
    /\ kg_client = "raising"
    /\ command = <<"nmap", "-p", "-sn", "192.168.1.1">>
    /\ CountKind(validation, "Conflict") = 1
    /\ validation.errors[Len(validation.errors)].f1 = "-sn"
    /\ validation.errors[Len(validation.errors)].f2 = "-p"


\* C18: the conflict relation of the embedded fallback data is symmetric:
\* every flag B the store in fallback mode lists for A lists A in turn.
C18_FallbackConflictsSymmetric ==
    (store.op = "get_conflicts" /\ store.source = "fallback")
    => \A i \in 1..Len(store.answer) :
           Contains(get_conflicts(store.answer[i]), store.option)

\* every other member of a family of mutually exclusive flags is listed
ListsOthers(answer, family, flag) ==
    \A i \in 1..Len(family) : family[i] # flag => Contains(answer, family[i])

\* C19: the embedded fallback data lists, for every scan-type flag, every other
\* scan-type flag; for every timing template, every other one; the
\* port-specification conflicts; -p for -sn; and its options with
\* requires_root include the raw-socket scan types, -O and --traceroute.
C19_FallbackCoversRequiredRules ==
    store.source = "fallback"
    => /\ (store.op = "get_conflicts" /\ Contains(ScanTypeFlags, store.option))
              => ListsOthers(store.answer, ScanTypeFlags, store.option)
       /\ (store.op = "get_conflicts" /\ Contains(TimingFlags, store.option))
              => ListsOthers(store.answer, TimingFlags, store.option)
       /\ (store.op = "get_conflicts" /\ store.option = "-sn")
              => Contains(store.answer, "-p")
       /\ (store.op = "get_conflicts" /\ store.option = "-p")
              => Contains(store.answer, "-F")
       /\ (store.op = "get_conflicts" /\ store.option = "-F")
              => Contains(store.answer, "-p") /\ Contains(store.answer, "-p-")
       /\ (store.op = "get_conflicts" /\ store.option = "-p-")
              => Contains(store.answer, "-F")
       /\ (/\ store.op = "get_options"
           /\ store.requires_root = "True"
           /\ store.category = "None"
           /\ store.exclude_conflicts = <<>>)
              => \A f \in ROOT_REQUIRED_FLAGS : Contains(store.answer, f)

\* C20: no query of the store raises: get_conflicts and get_options return a
\* list whether the backend was unreachable at construction or fails at the
\* query.
C20_QueriesNeverRaise ==
    store.op # "none" => store.outcome = "returned"

\* C21: when the store handle given to the validator raises at the query,
\* validate_conflicts and check_requires_root do not raise: they return what
\* the hardcoded rules give for the same command, and the whole validation
\* equals the one made without a store.
C21_RaisingStoreDegradesToHardcoded ==
    (pc = "validated" /\ kg_client = "raising")
    => LET flags == extract_flags(command)
       IN  /\ validate_conflicts(command, kg_client, KG_AVAILABLE)
                  = HardcodedConflicts(flags)
           /\ check_requires_root(command, kg_client, KG_AVAILABLE)
                  = SelectSeq(flags, LAMBDA f : f \in ROOT_REQUIRED_FLAGS)
           /\ validation = full_validation(command, "None", FALSE, FALSE,
                                           [raised |-> TRUE, score |-> 0])

\* a pair only the hardcoded rules list, with a flag only they mark as root
C21_Witness ==
    /\ pc = "validated"
    /\ kg_client = "raising"
    /\ command = <<"nmap", "-sS", "-sA", "192.168.1.1">>
    /\ CountKind(validation, "Conflict") = 1
    /\ validation.errors[Len(validation.errors)].f2 = "-sA"
    /\ Contains(validation.warnings, "requires root")


\* the six operators, as patterns and as tokens of the vocabulary
OperatorPatterns == <<">", "|", ";", "&&", "backtick", "$(">>

OperatorTokens == {">", "|", ";", "&&"}

HasOperator(cmd) ==
    \E i \in 1..Len(OperatorPatterns) : InCommand(OperatorPatterns[i], cmd)

\* a token with the operators removed from it ("" if nothing is left)
StripOperators(t) ==
    IF t \in OperatorTokens \cup {">>"} THEN ""
    ELSE IF t = "$(id)" THEN "id)"
    ELSE IF t = "backtick-id-backtick" THEN "id"
    ELSE t

\* the otherwise-identical command with the operators removed
WithoutOperators(cmd) ==
    SelectSeq([i \in 1..Len(cmd) |-> StripOperators(cmd[i])], LAMBDA t : t # "")

\* the commands made of cmd and one operator token put somewhere in it
WithOneOperator(cmd) ==
    {SubSeq(cmd, 1, i) \o <<o>> \o SubSeq(cmd, i + 1, Len(cmd)) :
        i \in 0..Len(cmd), o \in OperatorTokens}

\* cmd is what is left of a command with operators once they are removed
IsOperatorRemoval(cmd) ==
    \E c \in WithOneOperator(cmd) : HasOperator(c) /\ WithoutOperators(c) = cmd

\* a blocking rule other than the six operators matches
OtherBlockingRule(cmd) ==
    \/ \E p \in {"<", "rm ", "chmod ", "chown ", "dd ", "mkfs"} : InCommand(p, cmd)
    \/ /\ InCommand("--script", cmd)
       /\ \E i \in 1..Len(FORBIDDEN_SCRIPTS) : InCommand(FORBIDDEN_SCRIPTS[i], cmd)

\* C22 as stated: validate_safety rejects every command that contains one of
\* the operators >, |, ;, &&, backtick, $( and accepts the otherwise-identical
\* command with the operators removed.
C22_OperatorsRejectedRemovalAccepted ==
    (pc = "checked" /\ ret.op = "validate_safety")
    => /\ HasOperator(command) => ret.value = FALSE
       /\ IsOperatorRemoval(command) => ret.value = TRUE

\* C22 amended: validate_safety rejects every command that contains one of the
\* operators, and accepts the command with the operators removed when no
\* other blocking rule (input redirection, a destructive system command, a
\* forbidden script) matches what is left.
C22_RemovalAcceptedUnlessOtherRule ==
    (pc = "checked" /\ ret.op = "validate_safety")
    => /\ HasOperator(command) => ret.value = FALSE
       /\ (IsOperatorRemoval(command) /\ ~OtherBlockingRule(command))
              => ret.value = TRUE
       /\ OtherBlockingRule(command) => ret.value = FALSE

\* "nmap 192.168.1.1 out.txt", left of "nmap 192.168.1.1 > out.txt", is accepted
C22_Witness ==
    /\ pc = "checked"
    /\ ret.op = "validate_safety"
    /\ command = <<"nmap", "192.168.1.1", "out.txt">>
    /\ <<"nmap", "192.168.1.1", ">", "out.txt">> \in WithOneOperator(command)
    /\ IsOperatorRemoval(command)
    /\ ret.value = TRUE


\* C23: the confidence of a decision lies in [0, 1] for every combination of
\* verdict, validation score, attempt count, presence of errors, presence of
\* warnings and complexity hint, unknown hints included.
C23_ConfidenceInUnitRange ==
    pc = "decided" => decision.confidence >= 0 /\ decision.confidence <= 100

\* the lowest case: an invalid result with errors and warnings after more
\* than three retries on a HARD request
C23_Witness ==
    /\ pc = "decided"
    /\ complexity = "HARD"
    /\ result.attempts > 4
    /\ ~GetValid(result.validation)
    /\ decision.metadata.has_errors
    /\ decision.metadata.has_warnings
    /\ decision.confidence = 0


\* C24: quick_validation returns true exactly when the syntax check accepts
\* the command and the safety check finds no blocking pattern, that is when
\* the full validation of the same command records no Syntax and no Safety
\* error; it makes no store lookup, so the answer is the same for every store
\* handle and availability.
C24_QuickIsSyntaxAndSafety ==
    pc = "quick"
    => /\ ret.value = (validate_syntax(command).valid /\ BlockingFindings(command) = 0)
       /\ ret.value = (/\ CountKind(validation, "Syntax") = 0
                       /\ CountKind(validation, "Safety") = 0)
       /\ store = NoStore

\* accepted by the quick check although the store reports a conflict
C24_Witness ==
    /\ pc = "quick"
    /\ ret.value = TRUE
    /\ kg_client = "fallback"
    /\ CountKind(validation, "Conflict") = 1
    /\ ~validation.is_valid


\* history, best_result and best_score of a call of loop that runs alone and
\* whose attempts so far are h
RECURSIVE TrackAlone(_)
TrackAlone(h) ==
    IF h = <<>> THEN NewFrame
    ELSE LET before == TrackAlone(SubSeq(h, 1, Len(h) - 1))
             rec == h[Len(h)]
             better == ~rec.error /\ GetScore(rec.validation) > before.best_score
         IN  [history |-> h,
              best_result |-> IF better
                              THEN [isNone |-> FALSE, command |-> rec.command,
                                    validation |-> rec.validation,
                                    attempt |-> rec.attempt]
                              ELSE before.best_result,
              best_score |-> IF better THEN GetScore(rec.validation)
                             ELSE before.best_score]

\* what such a call returns
AloneResult(h) ==
    LET last == h[Len(h)]
        best == TrackAlone(h).best_result
    IN  IF h # <<>> /\ ~last.error /\ GoodEnough(last.validation)
        THEN [command |-> last.command, attempts |-> Len(h),
              validation |-> last.validation, history |-> h,
              corrected |-> Len(h) > 1]
        ELSE IF ~best.isNone
        THEN [command |-> best.command, attempts |-> max_retries,
              validation |-> best.validation, history |-> h,
              corrected |-> best.attempt > 1]
        ELSE [command |-> IF h # <<>> THEN last.command ELSE <<>>,
              attempts |-> max_retries,
              validation |-> IF h # <<>> THEN last.validation ELSE SyntheticFailure,
              history |-> h, corrected |-> FALSE]

\* every run's history and best-attempt tracking are those of the run alone,
\* and so is what it returns
RunsAsIfAlone ==
    \A r \in RunIds :
        /\ runs.frame[r] = TrackAlone(runs.local[r].log)
        /\ runs.local[r].pc = "returned"
               => runs.local[r].result = AloneResult(runs.local[r].log)

\* a step of one run leaves the instance fields, the store and the other
\* runs' locals and frames as they are
StepTouchesOneRun ==
    /\ UNCHANGED <<config, store>>
    /\ \A r, q \in RunIds :
           (runs.local[r] # runs'.local[r] /\ q # r)
               => /\ runs'.local[q] = runs.local[q]
                  /\ runs'.frame[q] = runs.frame[q]

\* C25: concurrent runs on the same SelfCorrector and CommandValidator do not
\* interfere under any interleaving of their steps: no step writes the
\* instance fields, the store or another run's state, and every run's
\* history, best-attempt tracking and result equal those of the same run
\* executed alone.
C25_ConcurrentRunsDoNotInterfere ==
    [](pc = "concurrent" => RunsAsIfAlone) /\ [][pc = "concurrent" => StepTouchesOneRun]_vars

\* both runs have returned after interleaved attempts with different
\* outcomes: one accepted its second attempt, the other returned its best
C25_Witness ==
    /\ pc = "concurrent"
    /\ runs.local["a"].pc = "returned"
    /\ runs.local["b"].pc = "returned"
    /\ Len(runs.local["a"].result.history) = 2
    /\ runs.local["a"].result.attempts = 2
    /\ runs.local["a"].result.corrected
    /\ Len(runs.local["b"].result.history) = 2
    /\ runs.local["b"].result.history[1].error
    /\ runs.local["a"].result.history # runs.local["b"].result.history

\* single run: the loop returns what AloneResult computes from its history
SingleRunIsAlone ==
    /\ pc \in {"loop", "validate", "fix", "exhausted", "returned", "decided"}
          => [history |-> history, best_result |-> best_result,
              best_score |-> best_score] = TrackAlone(history)
    /\ Returned => result = AloneResult(history)


\* the flags the rules in use list as conflicting with a flag
ListedConflicts(flag) ==
    IF ClientUsed(kg_client, KG_AVAILABLE) = "fallback"
    THEN get_conflicts(flag) ELSE get_all_conflicts(flag)

\* positions of the extracted flags that have a listed conflicting flag in
\* the command
ConflictingPositions(flags) ==
    {i \in 1..Len(flags) :
        \E k \in 1..Len(ListedConflicts(flags[i])) :
            Contains(flags, ListedConflicts(flags[i])[k])}

\* C26: the conflict reported for a command is the first one in flag-extraction
\* order: the first flag it names is the earliest extracted flag that has a
\* conflicting flag in the command, whether the conflict is between scan
\* types or of another kind.
C26_FirstConflictInExtractionOrder ==
    pc = "validated"
    => LET flags == extract_flags(command)
           hits == ConflictingPositions(flags)
           first == CHOOSE h \in hits : \A g \in hits : h <= g
       IN  hits # {}
           => /\ CountKind(validation, "Conflict") = 1
              /\ \A i \in 1..Len(validation.errors) :
                     validation.errors[i].kind = "Conflict"
                        => validation.errors[i].f1 = flags[first]


\* a token after the program token that is a well-formed target
HasTargetToken(cmd) ==
    \E i \in 2..Len(cmd) : ~StartsWithDash(cmd[i]) /\ IsValidTarget(cmd[i])

\* C27: the fix of a command whose only findings are syntax findings begins
\* with the program token and contains a target token: nmap is put in front
\* when it is missing and 127.0.0.1 is appended when the command has no target
\* token, as for "nmap -sV".
C27_SyntaxFixGivesProgramAndTarget ==
    (/\ pc = "fixed"
     /\ command # <<>>
     /\ CountKind(validation, "Syntax") = 1
     /\ Len(validation.errors) = 1)
    => /\ ret.value # <<>>
       /\ ret.value[1] = "nmap"
       /\ HasTargetToken(ret.value)


\* C28: validate_safety returns false for every command that contains sudo,
\* as it does for a command that contains rm followed by an argument.
C28_SudoIsBlocked ==
    (pc = "checked" /\ ret.op = "validate_safety")
    => /\ Contains(command, "sudo") => ret.value = FALSE
       /\ InCommand("rm ", command) => ret.value = FALSE

\* attempts of the history whose validation is marked valid
ValidAttempts == {i \in 1..Len(history) : GetValid(history[i].validation)}

\* the run returned from "Return best attempt", not from the early accept
EndedWithoutAccept ==
    /\ Returned
    /\ \A i \in 1..Len(history) : ~GoodEnough(history[i].validation)

C30_FallbackPathsAgree ==
    (pc = "validated" /\ ClientUsed(kg_client, KG_AVAILABLE) = "fallback")
    => /\ validate_conflicts(command, kg_client, KG_AVAILABLE).valid
             = validate_conflicts(command, "None", FALSE).valid
       /\ check_requires_root(command, kg_client, KG_AVAILABLE)
             = check_requires_root(command, "None", FALSE)


====
